---- MODULE Spec2Model ----
(***************************************************************************)
(* Model of the Typeform webhook receiver (api/webhook.js): the handler,   *)
(* saveToSupabase, updateAirtable and their helpers, run as concurrent     *)
(* invocations against one durable store (Supabase) and one secondary      *)
(* mirror (Airtable).  Every await of the source is one step of an         *)
(* invocation: the external call takes effect and the synchronous code     *)
(* that follows it runs up to the next await or to the response.           *)
(***************************************************************************)
EXTENDS Integers, Sequences, FiniteSets, TLC

\* ------------------------------------------------------------------ bounds
MaxInv == 2          \* handler invocations that may be in flight at once
MaxDeliveries == 3   \* deliveries the sender makes in one behaviour

Invs == 1..MaxInv

\* ------------------------------------------------------------ JS values
Absent == "<undefined>"   \* a missing property / undefined
NoObj == [k |-> "absent"] \* a missing object-valued property
NullObj == [k |-> "null"] \* the JSON value null where an object is expected

\* ------------------------------------------------- the inbound events
FieldEmail == [k |-> "obj", id |-> "q1", ref |-> "ref_q1", title |-> "Your Email"]
FieldNote == [k |-> "obj", id |-> "q2", ref |-> "ref_q2", title |-> Absent]

AnsEmail ==
  [k |-> "obj", field |-> FieldEmail, type |-> "email", val |-> "a@b.com",
   labels |-> <<>>, hasLabels |-> FALSE, bool |-> FALSE, num |-> 0, hasNum |-> FALSE]
AnsChoices ==
  [k |-> "obj", field |-> FieldNote, type |-> "choices", val |-> Absent,
   labels |-> <<"Villa", "Plot">>, hasLabels |-> TRUE, bool |-> FALSE, num |-> 0,
   hasNum |-> FALSE]
AnsNoField ==
  [k |-> "obj", field |-> NoObj, type |-> "text", val |-> "stray",
   labels |-> <<>>, hasLabels |-> FALSE, bool |-> FALSE, num |-> 0, hasNum |-> FALSE]

DefOk ==
  [k |-> "obj", title |-> "Survey",
   fields |-> << [k |-> "obj", id |-> "q1", title |-> "Your Email"] >>, hasFields |-> TRUE]
\* a definition whose fields list holds a null entry
DefNullField ==
  [k |-> "obj", title |-> "Survey", fields |-> << NullObj >>, hasFields |-> TRUE]

\* form_response envelopes.  answers is the list, empty when the property is
\* missing (the source treats a missing list and an empty one alike:
\* `answers && answers.length > 0`, `answers || []`).
EvFirst ==
  [k |-> "obj", token |-> "abc123", form_id |-> "F1", submitted_at |-> "t1",
   definition |-> DefOk, answers |-> <<AnsEmail, AnsChoices>>]
\* the same token as EvFirst with another form, no timestamp and a
\* definition whose fields list holds a null entry
EvNullField ==
  [k |-> "obj", token |-> "abc123", form_id |-> "F2", submitted_at |-> Absent,
   definition |-> DefNullField, answers |-> <<AnsEmail, AnsNoField>>]
EvOther ==
  [k |-> "obj", token |-> "tok2", form_id |-> "F1", submitted_at |-> "t2",
   definition |-> DefOk, answers |-> <<>>]
EvNoToken ==
  [k |-> "obj", token |-> Absent, form_id |-> "F1", submitted_at |-> "t1",
   definition |-> NoObj, answers |-> <<>>]
EvNoFormId ==
  [k |-> "obj", token |-> "abc123", form_id |-> Absent, submitted_at |-> "t1",
   definition |-> NoObj, answers |-> <<>>]

\* ------------------------------------- events with one answer of each kind
Field(id, ref, title) == [k |-> "obj", id |-> id, ref |-> ref, title |-> title]
Definition(fields) == [k |-> "obj", title |-> "Survey", fields |-> fields, hasFields |-> TRUE]
DefField(id, title) == [k |-> "obj", id |-> id, title |-> title]

\* an answer record: its kind and the properties the kinds read
Answer(field, type, val) ==
  [k |-> "obj", field |-> field, type |-> type, val |-> val,
   labels |-> <<>>, hasLabels |-> FALSE, bool |-> FALSE, num |-> 0, hasNum |-> FALSE]
Choices(field, labels) == [Answer(field, "choices", Absent) EXCEPT !.labels = labels,
                                                                  !.hasLabels = TRUE]
Number(field, num) == [Answer(field, "number", Absent) EXCEPT !.num = num, !.hasNum = TRUE]
Boolean(field, bool) == [Answer(field, "boolean", Absent) EXCEPT !.bool = bool]

\* the kinds getAnswerText has a case for, and kinds it has none for
ValueKinds == {"text", "email", "url", "choice", "date", "file_url", "phone_number"}
DefinedKinds == ValueKinds \cup {"choices", "number", "boolean"}
OtherKinds == {"payment", Absent}

KindAnswers ==
  {Answer(FieldEmail, type, val) : type \in ValueKinds \cup OtherKinds, val \in {"v", Absent}}
    \cup {Answer(FieldEmail, "text", val) : val \in {"", "  ", "N/A"}}
    \cup {Answer(FieldEmail, "choices", Absent), Answer(FieldEmail, "number", Absent),
          Choices(FieldEmail, <<>>), Choices(FieldEmail, <<"Villa", "Plot">>),
          Number(FieldEmail, 0), Number(FieldEmail, 7),
          Boolean(FieldEmail, TRUE), Boolean(FieldEmail, FALSE)}

Event(token, definition, answers) ==
  [k |-> "obj", token |-> token, form_id |-> "F1", submitted_at |-> "t1",
   definition |-> definition, answers |-> answers]

KindEvents == {Event("tok2", DefOk, <<a>>) : a \in KindAnswers}

\* ------------------ events whose question titles and references meet the
\* keywords of several branches of the mapping, of one, or of none
Labelled(title, ref) ==
  Event("tok2", Definition(<<DefField("q1", title)>>),
        <<Answer(Field("q1", ref, Absent), "text", "v")>>)

Labels ==
  { <<"Your name and email", Absent>>,
    <<"Phone or E-mail", Absent>>,
    <<"Budget for this property type", Absent>>,
    <<"What matters most in your preferred location?", Absent>>,
    <<"What matters most in a location?", Absent>>,
    <<"What matters most?", Absent>>,
    <<"Additional comments on funding", Absent>>,
    <<"Your Email", "contact_name">>,
    <<Absent, "Email_Name">>,
    <<"  Budget (optional)  ", Absent>>,
    <<"Favourite colour", "colour">> }

LabelEvents == {Labelled(l[1], l[2]) : l \in Labels}

\* two answers that take the same branch
EvSameColumn ==
  Event("tok2", Definition(<<DefField("q1", "Your email"), DefField("q2", "Work e-mail")>>),
        <<Answer(Field("q1", Absent, Absent), "email", "a@b.com"),
          Answer(Field("q2", Absent, Absent), "email", "c@d.com")>>)

\* ---------------------- events with generic "optional" detail questions
OptionalTitle == "Add details here (optional)"
Optional(n, val) == Answer(Field(ToString(n), Absent, Absent), "text", val)
OptionalDefinition ==
  Definition(<<DefField("1", OptionalTitle), DefField("2", "Budget (optional)"),
               DefField("3", OptionalTitle), DefField("4", "If you want, say more"),
               DefField("5", OptionalTitle), DefField("6", OptionalTitle),
               DefField("7", OptionalTitle), DefField("8", OptionalTitle)>>)

EvTwoOptional ==
  Event("tok2", OptionalDefinition, <<Optional(1, "v1"), Optional(3, "v3")>>)
EvFiveOptional ==
  Event("tok2", OptionalDefinition,
        <<Optional(1, "v1"), Optional(3, "v3"), Optional(4, "v4"), Optional(5, "v5"),
          Optional(6, "v6")>>)
\* with an answer that takes a branch of the chain and one without value between them
EvManyOptional ==
  Event("tok2", OptionalDefinition,
        <<Optional(1, "v1"), Optional(2, "v2"), Optional(3, Absent), Optional(4, "v4"),
          Optional(5, "v5"), Optional(6, "v6"), Optional(7, "v7"), Optional(8, "v8")>>)

OptionalEvents == {EvTwoOptional, EvFiveOptional, EvManyOptional}

\* -------- an event without definition whose answer carries its own title
EvInline ==
  Event("abc123", NoObj, <<Answer(Field(Absent, Absent, "Your Email"), "email", "a@b.com")>>)

\* ------------- an event without submitted_at and without form definition
EvNoTimestamp ==
  [Event("tok2", NoObj, <<AnsEmail>>) EXCEPT !.submitted_at = Absent]

\* ------------------ events with a long answer, around Airtable's limit
RECURSIVE Doubled(_, _)
Doubled(s, k) == IF k = 0 THEN s ELSE Doubled(s \o s, k - 1)
\* a text of n characters, n <= 163840
LongText(n) == SubSeq(Doubled("abcdefghij", 14), 1, n)
LongLengths == {99999, 100000, 100001, 100010}
LongEvents ==
  {Event("tok2", DefOk, <<Answer(FieldEmail, "text", LongText(n))>>) : n \in LongLengths}
    \cup {Event("tok2", OptionalDefinition, <<Optional(1, LongText(100001))>>)}

ProbeEvents ==
  KindEvents \cup LabelEvents \cup OptionalEvents \cup LongEvents
    \cup {EvSameColumn, EvInline, EvNoTimestamp}

ValidEvents == {EvFirst, EvNullField, EvOther}
Envelopes == ValidEvents \cup {EvNoToken, EvNoFormId, NoObj}
Tokens == {e.token : e \in ValidEvents}

\* 4 * 1024 * 1024, the ceiling of the payload size check
Ceiling == 4 * 1024 * 1024
SmallLen == 100

\* req.body: undefined (no body sent), null, or a decoded object whose
\* serialization has len characters
BodyUndefined == [k |-> "undefined"]
BodyNull == [k |-> "null"]
Body(e, n) == [k |-> "obj", form_response |-> e, len |-> n]

\* JSON.stringify(payload): undefined for undefined, "null" for null
JSONStringify(body) ==
  IF body.k = "undefined" THEN Absent
  ELSE IF body.k = "null" THEN "null"
  ELSE ToString(body)

\* JSON.stringify(payload).length; reading .length of undefined throws
StringifyThrows(body) == body.k = "undefined"
payloadSize(body) == IF body.k = "null" THEN 4 ELSE body.len

\* createHmac('sha256', secret).update(JSON.stringify(payload)).digest('base64')
Hmac(key, msg) == "hmac(" \o key \o "," \o msg \o ")"
SignatureFor(key, body) == "sha256=" \o Hmac(key, JSONStringify(body))
TheSecret == "s3cret"
Secrets == {Absent, TheSecret}          \* TYPEFORM_WEBHOOK_SECRET unset or set

Post(b, s) == [method |-> "POST", signature |-> s, body |-> b]
Signed(b) == Post(b, SignatureFor(TheSecret, b))
Forged == "sha256=forged"

\* the deliveries the sender (or anyone else) may make: every valid event
\* signed by the sender, and requests that are wrong in one or several ways
Requests ==
  {Signed(Body(e, SmallLen)) : e \in Envelopes}
    \cup {Signed(Body(NoObj, Ceiling)), Signed(Body(NoObj, Ceiling + 1)),
          Signed(Body(EvFirst, Ceiling + 1)),
          Post(Body(EvOther, SmallLen), Absent), Post(Body(EvOther, SmallLen), Forged),
          Signed(BodyNull), Post(BodyNull, Absent),
          Post(BodyUndefined, Absent), Post(BodyUndefined, Forged),
          [method |-> "GET", signature |-> Absent, body |-> BodyNull]}

\* ------------------------------------------------------------ responses
NoResponse == [status |-> 0, error |-> Absent, submission_id |-> Absent]
Rejection(code, text) == [status |-> code, error |-> text, submission_id |-> Absent]
MethodNotAllowed == Rejection(405, "Method not allowed")
Unauthorized == Rejection(401, "Unauthorized")
PayloadTooLarge == Rejection(413, "Payload too large")
InvalidStructure == Rejection(400, "Invalid payload structure")
MissingFields == Rejection(400, "Missing required fields")
DatabaseSaveFailed == Rejection(500, "Database save failed")
InternalServerError == Rejection(500, "Internal server error")
Success(token) == [status |-> 200, error |-> Absent, submission_id |-> token]

\* ------------------------------------------------------------ state
VARIABLES
  secret,          \* process.env.TYPEFORM_WEBHOOK_SECRET
  uniqueIndex,     \* whether the store's schema has a unique index on submission_id
  submissions,     \* rows of the store's submissions table
  answerRows,      \* rows of the store's answers table
  nextId,          \* next identity the store assigns to a submissions row
  nextBatch,       \* next number the store gives a batch insert of answers
  mirror,          \* records of the Airtable table
  nextRec,         \* next record id Airtable assigns
  pc,              \* position of each invocation
  req,             \* the request each invocation handles
  submission,      \* saveToSupabase's submission.id (0 while unset)
  dbSubmissionId,  \* handler's dbSubmissionId (0 while unset)
  response,        \* the response each invocation has sent
  hist,            \* what each invocation has done so far (observation only)
  acked,           \* per token, the identities saveToSupabase has returned
  deliveries       \* deliveries made so far

vars ==
  <<secret, uniqueIndex, submissions, answerRows, nextId, nextBatch, mirror, nextRec,
    pc, req, submission, dbSubmissionId, response, hist, acked, deliveries>>

config == <<secret, uniqueIndex>>
store == <<submissions, answerRows, nextId, nextBatch>>
airtable == <<mirror, nextRec>>

NoRequest == [method |-> "none", signature |-> Absent, body |-> BodyUndefined]
NoHist ==
  [lookupFailed |-> FALSE,      \* the existence lookup failed
   insertFailed |-> "no",       \* the insert failed: "request" or "unique"
   answersFailed |-> FALSE,     \* the batch insert of answers failed
   storeCalls |-> 0,            \* calls made to the store
   mirrorCalls |-> 0,           \* calls made to Airtable
   mirrorOutcome |-> "none"]    \* how updateAirtable ended

Init ==
  /\ secret \in Secrets
  /\ uniqueIndex \in BOOLEAN
  /\ submissions = {}
  /\ answerRows = {}
  /\ nextId = 1
  /\ nextBatch = 1
  /\ mirror = {}
  /\ nextRec = 1
  /\ pc = [i \in Invs |-> "idle"]
  /\ req = [i \in Invs |-> NoRequest]
  /\ submission = [i \in Invs |-> 0]
  /\ dbSubmissionId = [i \in Invs |-> 0]
  /\ response = [i \in Invs |-> NoResponse]
  /\ hist = [i \in Invs |-> NoHist]
  /\ acked = [t \in Tokens |-> {}]
  /\ deliveries = 0

\* ------------------------------------------------ handler, lines 9-51
Truthy(v) == v # Absent /\ v # ""

\* verifyTypeformSignature(payload, signature)
verifyTypeformSignature(body, signature) == SignatureFor(secret, body) = signature

\* the signature is checked whether a secret is configured or not
AlwaysVerifies(key) == TRUE

\* `if (process.env.TYPEFORM_WEBHOOK_SECRET)`
verifies(key) == Truthy(key)

\* the size check with the platform's 4.5 MB limit in place of the ceiling
TooLargeForPlatform(size) == size > 9 * 512 * 1024

\* `payloadSize > 4 * 1024 * 1024`
tooLarge(size) == size > Ceiling

\* The synchronous part of handler before saveToSupabase is called: the
\* response it sends, or NoResponse when the request goes on to the store.
validate(r) ==
  IF r.method # "POST" THEN MethodNotAllowed
  ELSE IF verifies(secret) /\ ~Truthy(r.signature) THEN Unauthorized
  ELSE IF verifies(secret) /\ StringifyThrows(r.body) THEN InternalServerError
  ELSE IF verifies(secret) /\ ~verifyTypeformSignature(r.body, r.signature) THEN Unauthorized
  ELSE IF StringifyThrows(r.body) THEN InternalServerError
  ELSE IF tooLarge(payloadSize(r.body)) THEN PayloadTooLarge
  ELSE IF r.body.k = "null" \/ r.body.form_response.k # "obj" THEN InvalidStructure
  ELSE IF ~Truthy(r.body.form_response.token) \/ ~Truthy(r.body.form_response.form_id)
    THEN MissingFields
  ELSE NoResponse

formResponse(i) == req[i].body.form_response

\* `new Date().toISOString()`: the time of receipt
ReceiptTime == "t_now"

\* `const submittedAt = formResponse.submitted_at || new Date().toISOString();`
\* of handler; the constant is read by no later statement
submittedAt(ev) == IF Truthy(ev.submitted_at) THEN ev.submitted_at ELSE ReceiptTime


\* ------------------------------------------------------- getAnswerText
RECURSIVE Join(_, _)
\* Array.prototype.join(sep)
Join(labels, sep) ==
  IF Len(labels) = 0 THEN ""
  ELSE IF Len(labels) = 1 THEN labels[1]
  ELSE labels[1] \o sep \o Join(Tail(labels), sep)

\* the dump yields nothing
StringifyYieldsNothing(answer) == Absent

\* JSON.stringify(answer)
stringifyAnswer(answer) == ToString(answer)

getAnswerText(answer) ==
  IF answer.k # "obj" THEN Absent
  ELSE IF answer.type \in {"text", "email", "url"} THEN answer.val
  ELSE IF answer.type = "choice" THEN answer.val
  ELSE IF answer.type = "choices"
    THEN (IF answer.hasLabels THEN Join(answer.labels, ", ") ELSE Absent)
  ELSE IF answer.type = "number"
    THEN (IF answer.hasNum THEN ToString(answer.num) ELSE Absent)
  ELSE IF answer.type = "boolean" THEN (IF answer.bool THEN "Yes" ELSE "No")
  ELSE IF answer.type \in {"date", "file_url"} THEN answer.val
  ELSE IF answer.type = "phone_number"
    THEN (IF Truthy(answer.val) THEN answer.val ELSE stringifyAnswer(answer))
  ELSE stringifyAnswer(answer)

\* ------------------------------------------------------ the label index
\* `formResponse.definition.fields.forEach(field => questionMap[field.id] = ...)`
\* throws a TypeError on an entry that is null
questionMapThrows(ev) ==
  /\ ev.definition.k = "obj"
  /\ ev.definition.hasFields
  /\ \E n \in 1..Len(ev.definition.fields) : ev.definition.fields[n].k # "obj"

\* questionMap[id]: the title the definition gives the question, if any
questionMap(ev, id) ==
  IF ev.definition.k = "obj" /\ ev.definition.hasFields
       /\ \E n \in 1..Len(ev.definition.fields) : ev.definition.fields[n].id = id
  THEN LET last == CHOOSE n \in 1..Len(ev.definition.fields) :
                     /\ ev.definition.fields[n].id = id
                     /\ \A m \in (n + 1)..Len(ev.definition.fields) :
                          ev.definition.fields[m].id # id
       IN ev.definition.fields[last].title
  ELSE Absent

\* --------------------------------------------------- saveToSupabase
\* rows of the submissions table with this submission_id
RowsOf(token) == {s \in submissions : s.submission_id = token}

\* `.select('id').eq('submission_id', token).single()`: data is the row when the
\* query succeeds and matches exactly one row, null otherwise (no row, several
\* rows, or a failed request; the error is not read by the source)
existing(token, failed) ==
  IF ~failed /\ Cardinality(RowsOf(token)) = 1
  THEN (CHOOSE s \in RowsOf(token) : TRUE).id
  ELSE 0

\* the insert reports an error: the request failed, or the unique index refused it
submissionError(token, failed) == failed \/ (uniqueIndex /\ RowsOf(token) # {})

\* the insert's error is dropped instead of thrown
SwallowsSubmissionError(err) == FALSE

\* `if (submissionError) throw submissionError;`
throwsSubmissionError(err) == err

\* the rows of the batch insert: answers with a field, mapped
answersBatch(ev, id, batch) ==
  {[submission_id |-> id, batch |-> batch, idx |-> n,
    question_id |-> ev.answers[n].field.id,
    question_text |->
      IF Truthy(questionMap(ev, ev.answers[n].field.id))
        THEN questionMap(ev, ev.answers[n].field.id)
      ELSE IF Truthy(ev.answers[n].field.ref) THEN ev.answers[n].field.ref
      ELSE "Unknown",
    answer_text |-> getAnswerText(ev.answers[n]),
    answer_type |-> ev.answers[n].type] :
     n \in {m \in 1..Len(ev.answers) :
              ev.answers[m].k = "obj" /\ ev.answers[m].field.k = "obj"}}

\* `catch (supabaseError)` of handler
onSupabaseError == DatabaseSaveFailed

\* the answers' error is thrown like the submission's
RethrowsAnswersError(err) == err

\* `if (answersError) { console.error(...) }`: the error is not thrown
throwsAnswersError(err) == FALSE

\* the handler goes on to updateAirtable after the failure response
GoesOnAfterFailure(i) == "search"

\* `return res.status(500).json({error: 'Database save failed', ...})` in
\* `catch (supabaseError)`: handler returns with the response
stageAfterFailure(i) == "done"

\* the handler responds once saveToSupabase has returned
RespondsAfterSave(i) == "done"

\* handler once saveToSupabase has returned: `await updateAirtable(...)`,
\* whose first step is the existence query
stageAfterSave(i) == "search"

\* the insert replaces the rows already stored under the same submission_id
UpsertsRow(rows, row) ==
  {s \in rows : s.submission_id # row.submission_id} \cup {row}

\* `.from('submissions').insert({...})`: the row is added, no stored row is touched
insertRow(rows, row) == rows \cup {row}

\* the found row's answers are written by the invocation that found it
BackfillsAnswers(i) == "answers"

\* `if (existing) { ...; return existing.id; }`: saveToSupabase returns without
\* any insert
stageWhenExisting(i) == stageAfterSave(i)

\* handler calls saveToSupabase: the existence lookup and what follows it
Lookup(i, failed) ==
  /\ pc[i] = "lookup"
  /\ LET ev == formResponse(i)
         found == existing(ev.token, failed)
     IN /\ hist' = [hist EXCEPT ![i].storeCalls = @ + 1, ![i].lookupFailed = failed]
        /\ IF found # 0
             THEN /\ dbSubmissionId' = [dbSubmissionId EXCEPT ![i] = found]
                  /\ acked' = [acked EXCEPT ![ev.token] = @ \cup {found}]
                  /\ pc' = [pc EXCEPT ![i] = stageWhenExisting(i)]
             ELSE /\ pc' = [pc EXCEPT ![i] = "insert"]
                  /\ UNCHANGED <<dbSubmissionId, acked>>
  /\ UNCHANGED <<config, store, airtable, req, submission, response, deliveries>>

\* the insert into submissions, then the label index and the answers batch
InsertSubmission(i, failed) ==
  /\ pc[i] = "insert"
  /\ LET ev == formResponse(i)
         err == submissionError(ev.token, failed)
         row == [id |-> nextId, submission_id |-> ev.token, form_id |-> ev.form_id,
                 submitted_at |-> ev.submitted_at, raw_data |-> ev]
         thrown == throwsSubmissionError(err) \/ questionMapThrows(ev)
     IN /\ IF err
             THEN UNCHANGED <<submissions, nextId>>
             ELSE /\ submissions' = insertRow(submissions, row)
                  /\ nextId' = nextId + 1
        /\ submission' = [submission EXCEPT ![i] = IF throwsSubmissionError(err) THEN 0 ELSE nextId]
        /\ hist' = [hist EXCEPT ![i].storeCalls = @ + 1,
                                ![i].insertFailed =
                                   IF failed THEN "request" ELSE IF err THEN "unique" ELSE "no"]
        /\ IF thrown
             THEN /\ response' = [response EXCEPT ![i] = onSupabaseError]
                  /\ pc' = [pc EXCEPT ![i] = stageAfterFailure(i)]
                  /\ UNCHANGED <<dbSubmissionId, acked>>
             ELSE IF answersBatch(ev, nextId, nextBatch) # {}
               THEN /\ pc' = [pc EXCEPT ![i] = "answers"]
                    /\ UNCHANGED <<dbSubmissionId, response, acked>>
               ELSE /\ pc' = [pc EXCEPT ![i] = stageAfterSave(i)]
                    /\ dbSubmissionId' = [dbSubmissionId EXCEPT ![i] = nextId]
                    /\ acked' = [acked EXCEPT ![ev.token] = @ \cup {nextId}]
                    /\ UNCHANGED response
  /\ UNCHANGED <<config, answerRows, nextBatch, airtable, req, deliveries>>

\* the batch insert into answers; saveToSupabase then returns submission.id
InsertAnswers(i, failed) ==
  /\ pc[i] = "answers"
  /\ LET ev == formResponse(i)
         id == submission[i]
     IN /\ IF failed
             THEN UNCHANGED <<answerRows, nextBatch>>
             ELSE /\ answerRows' = answerRows \cup answersBatch(ev, id, nextBatch)
                  /\ nextBatch' = nextBatch + 1
        /\ hist' = [hist EXCEPT ![i].storeCalls = @ + 1, ![i].answersFailed = failed]
        /\ IF throwsAnswersError(failed)
             THEN /\ response' = [response EXCEPT ![i] = onSupabaseError]
                  /\ pc' = [pc EXCEPT ![i] = stageAfterFailure(i)]
                  /\ UNCHANGED <<dbSubmissionId, acked>>
             ELSE /\ pc' = [pc EXCEPT ![i] = stageAfterSave(i)]
                  /\ dbSubmissionId' = [dbSubmissionId EXCEPT ![i] = id]
                  /\ acked' = [acked EXCEPT ![ev.token] = @ \cup {id}]
                  /\ UNCHANGED response
  /\ UNCHANGED <<config, submissions, nextId, airtable, req, submission, deliveries>>

\* ----------------------------------------------------- updateAirtable
\* records of the Airtable table whose Submission ID is the token
RecordsOf(token) == {r \in mirror : r.fields["Submission ID"] = token}

\* `searchData.records && searchData.records.length > 0`: the search answered
\* with a records list that holds a record for the token.  An error body has
\* no records property.
recordExists(token, outcome) == outcome = "records" /\ RecordsOf(token) # {}

\* building the record throws: the label index, or an answer that is null
\* (`answer.field?.id` in the logging and mapping loops)
buildThrows(ev) ==
  \/ questionMapThrows(ev)
  \/ \E n \in 1..Len(ev.answers) : ev.answers[n].k # "obj"

\* the base fields of the record (the answers' columns are added to them)
baseFields(ev) ==
  ("Submission ID" :> ev.token)
    @@ ("Submitted At" :> ev.submitted_at)
    @@ ("Form Name" :>
          IF ev.definition.k = "obj" /\ Truthy(ev.definition.title)
            THEN ev.definition.title ELSE "Unknown")
    @@ ("Status" :> "New")

\* ------------------------------------------- the mapping of the answers
UpperCase == "ABCDEFGHIJKLMNOPQRSTUVWXYZ"
LowerCase == "abcdefghijklmnopqrstuvwxyz"
lowerChar(c) ==
  IF \E k \in 1..26 : SubSeq(UpperCase, k, k) = c
  THEN LET k == CHOOSE j \in 1..26 : SubSeq(UpperCase, j, j) = c
       IN SubSeq(LowerCase, k, k)
  ELSE c

RECURSIVE toLowerCase(_)
\* String.prototype.toLowerCase()
toLowerCase(s) ==
  IF s = "" THEN "" ELSE lowerChar(SubSeq(s, 1, 1)) \o toLowerCase(SubSeq(s, 2, Len(s)))

RECURSIVE trim(_)
\* String.prototype.trim()
trim(s) ==
  IF s = "" THEN ""
  ELSE IF SubSeq(s, 1, 1) = " " THEN trim(SubSeq(s, 2, Len(s)))
  ELSE IF SubSeq(s, Len(s), Len(s)) = " " THEN trim(SubSeq(s, 1, Len(s) - 1))
  ELSE s

\* String.prototype.includes(keyword)
includes(s, keyword) ==
  \E p \in 1..(Len(s) - Len(keyword) + 1) : SubSeq(s, p, p + Len(keyword) - 1) = keyword

\* `answer.field?.id`, `answer.field?.ref`
fieldId(answer) == IF answer.field.k = "obj" THEN answer.field.id ELSE Absent
fieldRef(answer) == IF answer.field.k = "obj" THEN answer.field.ref ELSE Absent

\* `(questionMap[answer.field?.id] || '').toLowerCase().trim()`
questionTitle(ev, answer) ==
  LET title == questionMap(ev, fieldId(answer))
  IN IF Truthy(title) THEN trim(toLowerCase(title)) ELSE ""

\* `(answer.field?.ref || '').toLowerCase().trim()`
questionRef(answer) ==
  IF Truthy(fieldRef(answer)) THEN trim(toLowerCase(fieldRef(answer))) ELSE ""

\* no answer is skipped
NeverSkips(answerValue) == FALSE

\* only a missing or empty value is skipped
SkipsOnlyMissing(answerValue) == ~Truthy(answerValue)

\* `!answerValue || answerValue === 'N/A' || answerValue === ''`
skipsValue(answerValue) == ~Truthy(answerValue) \/ answerValue = "N/A"

\* the value is sent whole
SendsWhole(answerValue) == answerValue

\* Airtable's limit on the length of a value
AirtableLimit == 100000
truncatedValue(answerValue) ==
  IF Len(answerValue) > AirtableLimit THEN SubSeq(answerValue, 1, AirtableLimit)
  ELSE answerValue

\* matchesAny(...keywords); the keywords of the source are lower-case
\* literals, which keyword.toLowerCase() leaves as they are
matchesAny(title, ref, keywords) ==
  \E keyword \in keywords : includes(title, keyword) \/ includes(ref, keyword)

\* one branch of the if / else-if chain: the columns it sets and the keyword
\* lists of its condition (one list, or two joined by &&)
Rule(cols, keywords) == [cols |-> cols, all |-> <<keywords>>]

\* the if / else-if chain of the mapping loop, in the order of the source
Rules ==
  << Rule(<<"Full Name", "Name">>,
       {"full name", "your name", "name", "what's your name"}),
     Rule(<<"Email Address", "Email">>,
       {"email", "e-mail", "email address", "your email"}),
     Rule(<<"Mobile Number">>,
       {"mobile", "phone", "whatsapp", "contact number", "phone number"}),
     Rule(<<"Age Group">>,
       {"age group", "age range", "how old", "your age"}),
     Rule(<<"Current Location">>,
       {"where do you currently live", "current location", "living in", "where do you live"}),
     Rule(<<"Current Profession">>,
       {"current profession", "occupation", "what do you do", "your profession"}),
     Rule(<<"Household Income">>,
       {"household income", "annual income", "family income", "income range"}),
     Rule(<<"Household Size">>,
       {"household size", "family size", "how many people", "family members"}),
     Rule(<<"Purchase Duration">>,
       {"exploring this purchase", "how long", "been exploring", "purchase duration"}),
     Rule(<<"Buying Journey Stage">>,
       {"buying journey", "purchase stage", "where are you", "journey stage"}),
     Rule(<<"Properties Purchased Before">>,
       {"properties have you purchased", "bought before", "previous purchases", "purchased before"}),
     Rule(<<"Purchase Prompt">>,
       {"prompting this property search", "why now", "what prompted", "property search"}),
     Rule(<<"Dream Property Description">>,
       {"dream property", "ideal investment", "perfect property", "ideal property"}),
     Rule(<<"Preferred Locations">>,
       {"preferred location", "where would you like", "location preference", "preferred locations"}),
     Rule(<<"Investment Intention">>,
       {"main intention", "intention behind", "investment goal", "why invest"}),
     Rule(<<"Investment Inspiration">>,
       {"inspires this investment", "what inspires", "motivation", "investment inspiration"}),
     Rule(<<"Preferred Vibe">>,
       {"vibe are you looking", "atmosphere", "what vibe", "preferred vibe"}),
     Rule(<<"Asset Type">>,
       {"asset type", "property type", "type of property"}),
     Rule(<<"Budget Range">>,
       {"budget range", "price range", "how much", "budget"}),
     Rule(<<"Ownership Structure">>,
       {"ownership structure", "how own", "ownership type", "ownership"}),
     Rule(<<"Possession Timeline">>,
       {"possession timeline", "when move in", "possession date", "move in"}),
     Rule(<<"Deal Closure Timeline">>,
       {"close the deal", "purchase timeline", "when buy", "deal timeline"}),
     Rule(<<"Management Model">>,
       {"management model", "property management", "manage property", "management"}),
     Rule(<<"Funding Preference">>,
       {"funding preference", "payment", "financing", "funding"}),
     [cols |-> <<"Location Priorities">>,
     all |-> <<{"matters most"}, {"location"}>>],
     Rule(<<"Preferred Climate">>,
       {"climate do you", "weather preference", "climate preference", "preferred climate"}),
     Rule(<<"Area Type Preference">>,
       {"type of area", "urban", "rural", "area preference", "area type"}),
     Rule(<<"Distance Tolerance">>,
       {"too far", "distance", "how far", "distance tolerance"}),
     Rule(<<"Community Setup">>,
       {"community setup", "type of community", "community type"}),
     Rule(<<"Community Friendly For">>,
       {"community be friendly", "friendly for", "suitable for", "community friendly"}),
     Rule(<<"Natural Features">>,
       {"natural features", "nature", "natural surroundings"}),
     Rule(<<"Terrain Preference">>,
       {"terrain", "topography", "land type"}),
     Rule(<<"Preferred Views">>,
       {"preferred views", "view preference", "what views"}),
     Rule(<<"Outdoor Amenities">>,
       {"outdoor amenities", "outdoor facilities", "outdoor features"}),
     Rule(<<"Unit Configuration">>,
       {"unit configuration", "bedrooms", "bhk", "rooms", "configuration"}),
     Rule(<<"House Facing Direction">>,
       {"facing direction", "vastu", "which direction", "house facing"}),
     Rule(<<"Furnishing Level">>,
       {"furnishing level", "furnished", "furnishing"}),
     Rule(<<"Interior Style">>,
       {"interior style", "design style", "aesthetic"}),
     Rule(<<"Smart Home Preferences">>,
       {"smart home", "automation", "smart features"}),
     Rule(<<"Must Have Features">>,
       {"must-have features", "essential features", "must have"}),
     Rule(<<"Referral Source">>,
       {"where did you hear", "hear about us", "how did you find", "referral"}),
     Rule(<<"Additional Notes">>,
       {"tell us anything else", "additional", "anything else", "comments"}) >>

\* the condition of one branch
ruleMatches(rule, title, ref) ==
  \A g \in 1..Len(rule.all) : matchesAny(title, ref, rule.all[g])

RECURSIVE chainFrom(_, _, _)
\* the branch taken when the chain is entered at branch n: 0 when none is
chainFrom(title, ref, n) ==
  IF n > Len(Rules) THEN 0
  ELSE IF ruleMatches(Rules[n], title, ref) THEN n
  ELSE chainFrom(title, ref, n + 1)

\* the chain takes the last branch whose condition holds
LastMatchingRule(title, ref) ==
  IF \E n \in 1..Len(Rules) : ruleMatches(Rules[n], title, ref)
  THEN CHOOSE n \in 1..Len(Rules) :
         /\ ruleMatches(Rules[n], title, ref)
         /\ \A m \in (n + 1)..Len(Rules) : ~ruleMatches(Rules[m], title, ref)
  ELSE 0

\* the branch of the chain taken for a title and reference
matchedRule(title, ref) == chainFrom(title, ref, 1)

\* the columns for the generic "optional" questions, in order
optionalDetailFields ==
  <<"Investment Details", "Location Details", "Amenities Details", "Home Details">>

\* the keywords of the catch-all
catchAllKeywords == {"optional", "add details here", "if you want", "want to tell us more"}

\* the index stays where it is
KeepsOptionalIndex(index) == index

\* `optionalFieldIndex++`
nextOptionalIndex(index) == index + 1

RECURSIVE setColumns(_, _, _)
\* `fields[col] = truncatedValue` for each column of the branch
setColumns(fields, cols, value) ==
  IF Len(cols) = 0 THEN fields
  ELSE setColumns((Head(cols) :> value) @@ fields, Tail(cols), value)

RECURSIVE mapAnswers(_, _, _, _)
\* `answers.forEach(...)` from answer n on, with the fields and the
\* optionalFieldIndex the earlier answers left
mapAnswers(ev, n, fields, optionalFieldIndex) ==
  IF n > Len(ev.answers) THEN fields
  ELSE LET answer == ev.answers[n]
           title == questionTitle(ev, answer)
           ref == questionRef(answer)
           answerValue == getAnswerText(answer)
           rule == matchedRule(title, ref)
       IN IF skipsValue(answerValue)
            THEN mapAnswers(ev, n + 1, fields, optionalFieldIndex)
          ELSE IF rule # 0
            THEN mapAnswers(ev, n + 1,
                            setColumns(fields, Rules[rule].cols, truncatedValue(answerValue)),
                            optionalFieldIndex)
          ELSE IF /\ matchesAny(title, ref, catchAllKeywords)
                  /\ optionalFieldIndex < Len(optionalDetailFields)
            THEN mapAnswers(ev, n + 1,
                            setColumns(fields, <<optionalDetailFields[optionalFieldIndex + 1]>>,
                                       truncatedValue(answerValue)),
                            nextOptionalIndex(optionalFieldIndex))
          ELSE mapAnswers(ev, n + 1, fields, optionalFieldIndex)

\* the fields of the record sent to Airtable
recordFields(ev) == mapAnswers(ev, 1, baseFields(ev), 0)

\* the record of each event for which the building does not throw
MappedEvents == {e \in ValidEvents \cup ProbeEvents : ~buildThrows(e)}
\* `JSON.stringify(record)`: a property whose value is undefined is left out
recordBody(fields) ==
  [col \in {c \in DOMAIN fields : fields[c] # Absent} |-> fields[col]]

recordTable == {<<ev, recordBody(recordFields(ev))>> : ev \in MappedEvents}
recordOf(ev) == (CHOOSE p \in recordTable : p[1] = ev)[2]

throwsOnResponse(outcome) == outcome # "ok"

\* a mirror failure is reported to the caller
FailsOnAirtableError(token, failed) ==
  IF failed THEN InternalServerError ELSE Success(token)

\* handler after updateAirtable returned or threw (`catch (airtableError)` logs):
\* the acknowledgement
afterAirtable(token, failed) == Success(token)

\* the existence query, then the building of the record
SearchAirtable(i, outcome) ==
  /\ pc[i] = "search"
  /\ LET ev == formResponse(i)
         result == IF outcome = "throws" THEN "search_threw"
                   ELSE IF recordExists(ev.token, outcome) THEN "exists"
                   ELSE IF buildThrows(ev) THEN "build_threw"
                   ELSE "none"
     IN /\ hist' = [hist EXCEPT ![i].mirrorCalls = @ + 1, ![i].mirrorOutcome = result]
        /\ IF result = "none"
             THEN /\ pc' = [pc EXCEPT ![i] = "create"]
                  /\ UNCHANGED response
             ELSE /\ pc' = [pc EXCEPT ![i] = "done"]
                  /\ response' =
                       [response EXCEPT ![i] = afterAirtable(ev.token, result # "exists")]
  /\ UNCHANGED <<config, store, airtable, req, submission, dbSubmissionId, acked, deliveries>>

\* the POST of the record, then the response of handler
CreateRecord(i, outcome) ==
  /\ pc[i] = "create"
  /\ LET ev == formResponse(i)
     IN /\ IF outcome = "ok"
             THEN /\ mirror' = mirror \cup {[id |-> nextRec, fields |-> recordOf(ev)]}
                  /\ nextRec' = nextRec + 1
             ELSE UNCHANGED <<mirror, nextRec>>
        /\ hist' = [hist EXCEPT ![i].mirrorCalls = @ + 1,
                                ![i].mirrorOutcome =
                                   IF outcome = "ok" THEN "created"
                                   ELSE IF outcome = "not_ok" THEN "create_rejected"
                                   ELSE "create_threw"]
        /\ response' =
             [response EXCEPT ![i] = afterAirtable(ev.token, throwsOnResponse(outcome))]
        /\ pc' = [pc EXCEPT ![i] = "done"]
  /\ UNCHANGED <<config, store, req, submission, dbSubmissionId, acked, deliveries>>

\* a fetch of updateAirtable (the existence query or the POST) never settles:
\* neither is given a signal or a deadline, so the await never resumes
Stall(i) ==
  /\ pc[i] \in {"search", "create"}
  /\ pc' = [pc EXCEPT ![i] = "stalled"]
  /\ hist' = [hist EXCEPT ![i].mirrorCalls = @ + 1, ![i].mirrorOutcome = "stalled"]
  /\ UNCHANGED <<config, store, airtable, req, submission, dbSubmissionId, response, acked,
                 deliveries>>

\* ------------------------------------------------------------- handler
\* a delivery arrives: handler runs up to the response or to saveToSupabase
Receive(i, r) ==
  /\ pc[i] = "idle"
  /\ \A j \in 1..(i - 1) : pc[j] # "idle"     \* invocations are interchangeable
  /\ deliveries < MaxDeliveries
  /\ deliveries' = deliveries + 1
  /\ req' = [req EXCEPT ![i] = r]
  /\ IF validate(r) = NoResponse
       THEN /\ pc' = [pc EXCEPT ![i] = "lookup"]
            /\ UNCHANGED response
       ELSE /\ pc' = [pc EXCEPT ![i] = "done"]
            /\ response' = [response EXCEPT ![i] = validate(r)]
  /\ UNCHANGED <<config, store, airtable, submission, dbSubmissionId, hist, acked>>

\* the invocation is over; its slot can take another delivery
Finish(i) ==
  /\ pc[i] = "done"
  /\ pc' = [pc EXCEPT ![i] = "idle"]
  /\ req' = [req EXCEPT ![i] = NoRequest]
  /\ submission' = [submission EXCEPT ![i] = 0]
  /\ dbSubmissionId' = [dbSubmissionId EXCEPT ![i] = 0]
  /\ response' = [response EXCEPT ![i] = NoResponse]
  /\ hist' = [hist EXCEPT ![i] = NoHist]
  /\ UNCHANGED <<config, store, airtable, acked, deliveries>>

SearchOutcomes == {"records", "error_body", "throws"}
CreateOutcomes == {"ok", "not_ok", "throws"}

Step(i) ==
  \/ \E failed \in BOOLEAN : Lookup(i, failed)
  \/ \E failed \in BOOLEAN : InsertSubmission(i, failed)
  \/ \E failed \in BOOLEAN : InsertAnswers(i, failed)
  \/ \E outcome \in SearchOutcomes : SearchAirtable(i, outcome)
  \/ \E outcome \in CreateOutcomes : CreateRecord(i, outcome)
  \/ Stall(i)
  \/ Finish(i)

Next ==
  \/ \E i \in Invs, r \in Requests : Receive(i, r)
  \/ \E i \in Invs : Step(i)

Spec == Init /\ [][Next]_vars

\* deliveries handled one at a time: a delivery arrives only when no
\* invocation is in flight
ReceiveAlone(i, r) ==
  /\ \A j \in Invs : pc[j] = "idle"
  /\ Receive(i, r)

NextSeq ==
  \/ \E i \in Invs, r \in Requests : ReceiveAlone(i, r)
  \/ \E i \in Invs : Step(i)

SeqSpec == Init /\ [][NextSeq]_vars

\* one delivery, of one of the events with answers above, handled alone
ProbeRequests == {Signed(Body(e, SmallLen)) : e \in ProbeEvents}

ReceiveOne(r) ==
  /\ deliveries = 0
  /\ Receive(1, r)

NextOne ==
  \/ \E r \in ProbeRequests : ReceiveOne(r)
  \/ Step(1)

OneSpec == Init /\ [][NextOne]_vars

\* the same, where the invocation goes on as long as it has a step to take:
\* the runtime resumes the handler whenever the call it awaits has settled
OneFairSpec == Init /\ [][NextOne]_vars /\ WF_vars(Step(1))

\* ------------------------------------------- a sender that redelivers
\* the rows after which the sender gives up (every insert adds a row, so an
\* unbounded sequence of redeliveries that insert would not end)
MaxRows == 3

\* the sender got 'Database save failed' and delivers the same request again:
\* a new invocation of handler on the request, which passed the checks before
Redeliver(i) ==
  /\ pc[i] = "done"
  /\ response[i] = DatabaseSaveFailed
  /\ Cardinality(submissions) < MaxRows
  /\ validate(req[i]) = NoResponse
  /\ pc' = [pc EXCEPT ![i] = "lookup"]
  /\ submission' = [submission EXCEPT ![i] = 0]
  /\ dbSubmissionId' = [dbSubmissionId EXCEPT ![i] = 0]
  /\ response' = [response EXCEPT ![i] = NoResponse]
  /\ hist' = [hist EXCEPT ![i] = NoHist]
  /\ deliveries' = IF deliveries < MaxDeliveries THEN deliveries + 1 ELSE deliveries
  /\ UNCHANGED <<config, store, airtable, req, acked>>

\* the steps of an invocation whose calls all settle
Settles(i) ==
  \/ \E failed \in BOOLEAN : Lookup(i, failed)
  \/ \E failed \in BOOLEAN : InsertSubmission(i, failed)
  \/ \E failed \in BOOLEAN : InsertAnswers(i, failed)
  \/ \E outcome \in SearchOutcomes : SearchAirtable(i, outcome)
  \/ \E outcome \in CreateOutcomes : CreateRecord(i, outcome)

NextRetry ==
  \/ \E r \in Requests : ReceiveOne(r)
  \/ Settles(1)
  \/ Redeliver(1)

\* one delivery, redelivered after each 'Database save failed'; the invocation
\* goes on whenever it can and the sender redelivers whenever it is due
RetrySpec ==
  Init /\ [][NextRetry]_vars /\ WF_vars(Settles(1)) /\ WF_vars(Redeliver(1))


\* ================================================================ claims
Done(i) == pc[i] = "done"
Saved(i) == dbSubmissionId[i] # 0                  \* saveToSupabase returned
TokenOf(i) == req[i].body.form_response.token
BatchesOf(token) ==
  {a.batch : a \in {b \in answerRows : \E s \in RowsOf(token) : s.id = b.submission_id}}
NoCalls(i) == hist[i].storeCalls = 0 /\ hist[i].mirrorCalls = 0
\* the request passes the signature check, or none is made
PassesSignature(r) ==
  \/ ~Truthy(secret)
  \/ r.body.k # "undefined" /\ r.signature = SignatureFor(secret, r.body)
Oversize(r) == r.body.k = "obj" /\ r.body.len > Ceiling
\* wrong method; body absent, null or without envelope; envelope without token or form_id
Malformed(r) ==
  \/ r.method # "POST"
  \/ r.body.k # "obj"
  \/ r.body.form_response.k # "obj"
  \/ r.body.form_response.token = Absent
  \/ r.body.form_response.form_id = Absent

\* C1: with deliveries handled one at a time, once saveToSupabase has returned
\* an identity for a submissionId the store holds exactly one Submission row
\* and at most one batch of Answer rows for it, and every call that returned
\* has returned that same identity.
C1_SequentialIdempotent ==
  \A t \in Tokens :
    acked[t] # {} =>
      /\ Cardinality(RowsOf(t)) = 1
      /\ Cardinality(BatchesOf(t)) <= 1
      /\ Cardinality(acked[t]) = 1

\* C2: two invocations for the same submissionId whose store calls all went
\* through (no failed request, no exception) and that are both past
\* saveToSupabase hold the same identity, and the store holds one Submission
\* row and at most one batch of Answer rows for the submissionId.
C2_ConcurrentIdempotent ==
  \A i, j \in Invs :
    ( /\ i # j
      /\ pc[i] \in {"search", "create", "done"} /\ hist[i].storeCalls > 0
      /\ pc[j] \in {"search", "create", "done"} /\ hist[j].storeCalls > 0
      /\ TokenOf(i) = TokenOf(j)
      /\ ~hist[i].lookupFailed /\ ~hist[j].lookupFailed
      /\ hist[i].insertFailed # "request" /\ hist[j].insertFailed # "request"
      /\ ~questionMapThrows(formResponse(i)) /\ ~questionMapThrows(formResponse(j)) )
    => /\ Saved(i)
       /\ dbSubmissionId[i] = dbSubmissionId[j]
       /\ Cardinality(RowsOf(TokenOf(i))) = 1
       /\ Cardinality(BatchesOf(TokenOf(i))) <= 1

\* C3: an invocation whose saveToSupabase returned responds with the success
\* acknowledgement carrying the token, whatever the mirror stage did; and no
\* step of the mirror stage changes the submissions or the answers table.
C3_MirrorIsolation ==
  /\ [](\A i \in Invs : Done(i) /\ Saved(i) => response[i] = Success(TokenOf(i)))
  /\ [][\A i \in Invs :
          pc[i] \in {"search", "create"} /\ pc'[i] # pc[i]
            => submissions' = submissions /\ answerRows' = answerRows]_vars

\* C3 witness: an invocation that saved, whose record Airtable refused, has
\* responded with success
C3_Witness ==
  \E i \in Invs :
    /\ Done(i) /\ Saved(i)
    /\ hist[i].mirrorOutcome = "create_rejected"
    /\ response[i].status = 200

\* C4: an invocation whose existence lookup or Submission insert failed is
\* over with the persistence-failure response, made no store call after the
\* failed one and no mirror call.
C4_StoreFailureAborts ==
  \A i \in Invs :
    /\ hist[i].lookupFailed =>
         /\ Done(i) /\ response[i] = DatabaseSaveFailed
         /\ hist[i].storeCalls = 1 /\ hist[i].mirrorCalls = 0
    /\ hist[i].insertFailed # "no" =>
         /\ Done(i) /\ response[i] = DatabaseSaveFailed
         /\ hist[i].mirrorCalls = 0

\* C5: an invocation that responded 'Database save failed' has committed no
\* Submission row.
C5_FailureMeansNothingCommitted ==
  \A i \in Invs :
    Done(i) /\ response[i] = DatabaseSaveFailed =>
      ~\E s \in submissions : s.id = submission[i]

\* C6: when the batch insert of Answer rows failed, saveToSupabase returns
\* the identity of the Submission row it inserted, the row with its raw
\* payload is in the store, and the invocation goes through the mirror stage
\* to the success response.
C6_AnswerErrorSwallowed ==
  \A i \in Invs :
    hist[i].answersFailed =>
      /\ pc[i] \in {"search", "create", "stalled", "done"}
      /\ Saved(i) /\ dbSubmissionId[i] = submission[i]
      /\ \E s \in submissions : s.id = dbSubmissionId[i] /\ s.raw_data = formResponse(i)
      /\ Done(i) => response[i] = Success(TokenOf(i)) /\ hist[i].mirrorCalls >= 1

\* C6 witness: such an invocation has responded
C6_Witness ==
  \E i \in Invs : Done(i) /\ hist[i].answersFailed /\ response[i].status = 200

\* C7: every record of the mirror has a Submission row with its submissionId
\* in the store.
C7_MirrorWithinStore ==
  \A r \in mirror : RowsOf(r.fields["Submission ID"]) # {}

\* C7 witness: the mirror holds a record while an invocation has ended in the
\* persistence failure
C7_Witness ==
  /\ mirror # {}
  /\ \E i \in Invs : Done(i) /\ response[i] = DatabaseSaveFailed

\* C8: with deliveries handled one at a time, the mirror holds at most one
\* record per submissionId.
C8_MirrorAtMostOne ==
  \A t \in Tokens : Cardinality(RecordsOf(t)) <= 1

\* C9: a POST request that passes the signature check and whose serialized
\* body is longer than the ceiling is answered 'Payload too large', whatever
\* its structure, and the invocation calls neither the store nor the mirror.
C9_OversizeRejected ==
  \A i \in Invs :
    ( /\ pc[i] # "idle"
      /\ req[i].method = "POST" /\ PassesSignature(req[i]) /\ Oversize(req[i]) )
    => Done(i) /\ response[i] = PayloadTooLarge /\ NoCalls(i)

\* C9 witness: an oversize body without envelope has been answered 413
C9_Witness ==
  \E i \in Invs :
    /\ Done(i) /\ Oversize(req[i])
    /\ req[i].body.form_response.k # "obj"
    /\ response[i].status = 413

\* C10: a malformed request (that passes the signature check and the size
\* check) is answered with a client-error rejection, never with an internal
\* error, and the invocation calls neither the store nor the mirror.
C10_MalformedRejected ==
  \A i \in Invs :
    Done(i) /\ Malformed(req[i]) /\ PassesSignature(req[i]) /\ ~Oversize(req[i])
    => response[i].status \in {400, 405} /\ NoCalls(i)

\* the signature header is not the one recomputed from the body
BadSignature(r) == r.signature # SignatureFor(secret, r.body)

\* C11: with a signing secret configured, a POST request whose signature
\* header is missing or differs from the recomputed 'sha256=' HMAC of the
\* body is answered 'Unauthorized', and the invocation calls neither the
\* store nor the mirror.
C11_BadSignatureUnauthorized ==
  \A i \in Invs :
    ( /\ pc[i] # "idle"
      /\ req[i].method = "POST"
      /\ Truthy(secret) /\ BadSignature(req[i]) )
    => Done(i) /\ response[i] = Unauthorized /\ NoCalls(i)

\* signature headers a request may carry: none, an empty one, a forged one,
\* the sender's, and the one recomputed with the configured secret
SignatureHeaders(r) ==
  {Absent, "", Forged, SignatureFor(TheSecret, r.body), SignatureFor(secret, r.body)}

\* C12: without a signing secret, what the handler does with a request is
\* what it does with the same request under any other signature header: the
\* step that receives it sends the same response or goes on to the store
\* alike, and the response of a finished invocation is one the request
\* without header can get.  (No later step reads the header.)
C12_OpenModeIgnoresSignature ==
  /\ [][\A i \in Invs :
          (~Truthy(secret) /\ pc[i] = "idle" /\ pc'[i] # "idle") =>
            \A s \in SignatureHeaders(req'[i]) :
              LET other == validate([req'[i] EXCEPT !.signature = s])
              IN /\ response'[i] = other
                 /\ pc'[i] = IF other = NoResponse THEN "lookup" ELSE "done"]_vars
  /\ [](\A i \in Invs :
          (~Truthy(secret) /\ Done(i)) =>
            LET bare == validate([req[i] EXCEPT !.signature = Absent])
            IN IF bare # NoResponse THEN response[i] = bare
               ELSE response[i] \in {DatabaseSaveFailed, Success(TokenOf(i))})

\* C12 witness: without a secret, a delivery with a forged signature header
\* has been stored, mirrored and acknowledged
C12_Witness ==
  /\ ~Truthy(secret)
  /\ \E i \in Invs :
       /\ Done(i) /\ req[i].signature = Forged
       /\ response[i].status = 200
       /\ hist[i].mirrorOutcome = "created"
       /\ RowsOf(TokenOf(i)) # {} /\ RecordsOf(TokenOf(i)) # {}

\* the answer a row of the answers table was made from
AnswerOf(row) ==
  (CHOOSE s \in submissions : s.id = row.submission_id).raw_data.answers[row.idx]

\* the property the answer's kind reads is there
HasValue(answer) ==
  \/ answer.type \in ValueKinds /\ answer.val # Absent
  \/ answer.type = "choices" /\ answer.hasLabels
  \/ answer.type = "number" /\ answer.hasNum
  \/ answer.type = "boolean"

C14_NoEmptyAnswerRow ==
  /\ \A row \in answerRows : Truthy(row.answer_text)
  /\ \A i \in Invs :
       (pc[i] \in {"search", "create", "done"} /\ submission[i] # 0
          /\ ~hist[i].answersFailed) =>
         {row.idx : row \in {a \in answerRows : a.submission_id = submission[i]}}
           = {n \in 1..Len(formResponse(i).answers) :
                Truthy(getAnswerText(formResponse(i).answers[n]))}

\* a value that consists of whitespace only
Blank(value) == value \notin {Absent, ""} /\ trim(value) = ""

\* C15: a value that consists of whitespace only is the text of no row of the
\* answers table and the value of no column of a record of the mirror.
C15_BlankAnswerNowhere ==
  /\ \A row \in answerRows : ~Blank(row.answer_text)
  /\ \A r \in mirror : \A col \in DOMAIN r.fields : ~Blank(r.fields[col])

\* the branches of the chain whose condition an answer's title and reference
\* meet, for every answer of every event
MatchTable ==
  UNION {{<<ev, n, {r \in 1..Len(Rules) :
                     ruleMatches(Rules[r], questionTitle(ev, ev.answers[n]),
                                 questionRef(ev.answers[n]))}>> :
            n \in 1..Len(ev.answers)} : ev \in MappedEvents}
MatchingRules(ev, n) == (CHOOSE t \in MatchTable : t[1] = ev /\ t[2] = n)[3]
Least(S) == CHOOSE r \in S : \A q \in S : r <= q
Greatest(S) == CHOOSE r \in S : \A q \in S : r >= q
ColumnsOf(r) == {Rules[r].cols[c] : c \in 1..Len(Rules[r].cols)}
SpecificColumns == UNION {ColumnsOf(r) : r \in 1..Len(Rules)}

\* the answers with a value to map whose earliest matching branch sets the column
AnswersFor(ev, col) ==
  {n \in 1..Len(ev.answers) :
     /\ ~skipsValue(getAnswerText(ev.answers[n]))
     /\ MatchingRules(ev, n) # {}
     /\ col \in ColumnsOf(Least(MatchingRules(ev, n)))}

\* the invocation has created the record of its event
Created(i) == Done(i) /\ hist[i].mirrorOutcome = "created"

\* C16: in the record an invocation created, a column of the chain is set
\* exactly when it is a column of the earliest branch, in the order of the
\* chain, that some answer's title and reference meet, and it holds the value
\* of the last such answer; the later branches an answer meets set nothing.
C16_FirstMatchWins ==
  \A i \in Invs :
    Created(i) =>
      \A rec \in RecordsOf(TokenOf(i)) :
        \A col \in SpecificColumns :
          LET from == AnswersFor(formResponse(i), col)
          IN IF from = {} THEN col \notin DOMAIN rec.fields
             ELSE /\ col \in DOMAIN rec.fields
                  /\ rec.fields[col] =
                       truncatedValue(getAnswerText(formResponse(i).answers[Greatest(from)]))

\* C16 witness: a record was created for an answer whose title meets the
\* keywords of two branches or more
C16_Witness ==
  \E i \in Invs :
    /\ Created(i)
    /\ \E n \in 1..Len(formResponse(i).answers) :
         /\ Cardinality(MatchingRules(formResponse(i), n)) >= 2
         /\ AnswersFor(formResponse(i), "Asset Type") = {n}

\* the answers with a value to map that meet no branch of the chain and a
\* keyword of the catch-all, and the place of one among them
CatchAllAnswers(ev) ==
  {n \in 1..Len(ev.answers) :
     /\ ~skipsValue(getAnswerText(ev.answers[n]))
     /\ MatchingRules(ev, n) = {}
     /\ matchesAny(questionTitle(ev, ev.answers[n]), questionRef(ev.answers[n]),
                   catchAllKeywords)}
PlaceOf(ev, n) == Cardinality({m \in CatchAllAnswers(ev) : m <= n})

\* C17: in the record an invocation created, the j-th answer that meets the
\* catch-all and no branch of the chain sets the j-th of the four detail
\* columns, for j up to four; a detail column without such an answer is not
\* set; the value of a fifth or later such answer is in no column.
C17_CatchAllSlots ==
  \A i \in Invs :
    Created(i) =>
      \A rec \in RecordsOf(TokenOf(i)) :
        LET ev == formResponse(i)
        IN /\ \A j \in 1..Len(optionalDetailFields) :
                IF \E n \in CatchAllAnswers(ev) : PlaceOf(ev, n) = j
                  THEN /\ optionalDetailFields[j] \in DOMAIN rec.fields
                       /\ \E n \in CatchAllAnswers(ev) :
                            /\ PlaceOf(ev, n) = j
                            /\ rec.fields[optionalDetailFields[j]]
                                 = truncatedValue(getAnswerText(ev.answers[n]))
                  ELSE optionalDetailFields[j] \notin DOMAIN rec.fields
           /\ \A n \in CatchAllAnswers(ev) :
                PlaceOf(ev, n) > Len(optionalDetailFields) =>
                  \A col \in DOMAIN rec.fields :
                    rec.fields[col] # truncatedValue(getAnswerText(ev.answers[n]))

\* C17 witness: a record was created for an event with six such answers
C17_Witness ==
  \E i \in Invs :
    /\ Created(i)
    /\ Cardinality(CatchAllAnswers(formResponse(i))) = 6
    /\ \E rec \in RecordsOf(TokenOf(i)) : rec.fields["Home Details"] = "v6"

\* an event without definition whose one answer is of kind email and is
\* labelled only by a title of its own that contains 'email'
InlineEmail(ev) ==
  /\ ev.definition.k # "obj"
  /\ Len(ev.answers) = 1
  /\ ev.answers[1].type = "email" /\ Truthy(ev.answers[1].val)
  /\ ev.answers[1].field.k = "obj"
  /\ ~Truthy(ev.answers[1].field.ref)
  /\ Truthy(ev.answers[1].field.title)
  /\ includes(toLowerCase(ev.answers[1].field.title), "email")

\* the first delivery of such an event went through the store and the mirror
InlineEmailDelivered(i) ==
  /\ Created(i) /\ InlineEmail(formResponse(i))
  /\ submission[i] # 0 /\ ~hist[i].answersFailed

\* its Submission row is in the store, with one Answer row of kind email
\* holding the value
InlineEmailStored(i) ==
  /\ \E s \in RowsOf(TokenOf(i)) : s.id = submission[i]
  /\ \E row \in answerRows :
       /\ row.submission_id = submission[i]
       /\ row.answer_type = "email"
       /\ row.answer_text = formResponse(i).answers[1].val
  /\ Cardinality({row \in answerRows : row.submission_id = submission[i]}) = 1

\* C18: the first delivery of such an event creates a Submission row for the
\* token, one Answer row of kind email with the value, and a record whose
\* 'Email Address' column is the value.
C18_InlineTitleEmail ==
  \A i \in Invs :
    InlineEmailDelivered(i) =>
      /\ InlineEmailStored(i)
      /\ \A rec \in RecordsOf(TokenOf(i)) :
           /\ "Email Address" \in DOMAIN rec.fields
           /\ rec.fields["Email Address"] = formResponse(i).answers[1].val

\* the invocation has called the mirror
Mirroring(i) == hist[i].mirrorCalls > 0

\* C19: an invocation for which saveToSupabase returned, with a row it
\* inserted or one it found, has called the mirror when it responds; an
\* invocation that has called the mirror handles a POST request that passed
\* the signature check, the size check and the validation, and holds the
\* identity of a Submission row of its token; and an invocation enters the
\* store stage only from the accepted request, the mirror stage only from the
\* store stage.
C19_StageOrder ==
  /\ [](\A i \in Invs : (Done(i) /\ Saved(i)) => Mirroring(i))
  /\ [](\A i \in Invs :
          Mirroring(i) =>
            /\ req[i].method = "POST"
            /\ PassesSignature(req[i]) /\ ~Oversize(req[i]) /\ ~Malformed(req[i])
            /\ hist[i].storeCalls >= 1 /\ Saved(i)
            /\ \E s \in RowsOf(TokenOf(i)) : s.id = dbSubmissionId[i])
  /\ [][\A i \in Invs :
          /\ (pc'[i] = "lookup" /\ pc[i] # "lookup") =>
               pc[i] = "idle" /\ validate(req'[i]) = NoResponse
          /\ (pc'[i] = "search" /\ pc[i] # "search") =>
               pc[i] \in {"lookup", "insert", "answers"} /\ dbSubmissionId'[i] # 0
          /\ (pc'[i] = "create" /\ pc[i] # "create") => pc[i] = "search"]_vars

\* C19 witness: an invocation that found the row of an earlier delivery has
\* called the mirror and responded
C19_Witness ==
  \E i \in Invs :
    /\ Done(i) /\ Saved(i) /\ Mirroring(i)
    /\ submission[i] = 0
    /\ hist[i].storeCalls = 1

\* C20: an invocation whose mirror call has stalled responds in the end, with
\* the success acknowledgement.
C20_StallReleased ==
  \A i \in Invs :
    (pc[i] = "stalled") ~> (Done(i) /\ response[i] = Success(TokenOf(i)))

\* the Answer rows stored for one Submission row
AnswersOf(id) == {a \in answerRows : a.submission_id = id}

\* invocation i is the one that inserted the Submission row `id` and has its
\* batch of answers still to insert
InsertingAnswersFor(i, id) == pc[i] = "answers" /\ submission[i] = id

\* C21: once a Submission row exists, no step of any delivery changes or deletes
\* it (raw payload included), and its Answer rows change only when the
\* invocation that inserted the row writes its batch; a redelivery of the
\* same submissionId, whatever its form id, timestamp or answers, leaves both
\* as they were
C21_StoredRowUntouched ==
  [][\A s \in submissions :
       /\ s \in submissions'
       /\ RowsOf(s.submission_id) \subseteq RowsOf(s.submission_id)'
       /\ \/ AnswersOf(s.id)' = AnswersOf(s.id)
          \/ \E i \in Invs : /\ InsertingAnswersFor(i, s.id)
                             /\ AnswersOf(s.id) = {}
                             /\ pc'[i] # "answers"]_vars

\* a redelivery of a stored submissionId with another form id and other answers
\* has been handled to its response, by finding the row or by inserting
\* another one, and the first row is still there
C21_Witness ==
  \E i \in Invs : \E s \in submissions :
    /\ Done(i)
    /\ pc[i] = "done" /\ hist[i].storeCalls > 0
    /\ s.submission_id = TokenOf(i)
    /\ s.raw_data # formResponse(i)
    /\ s.form_id # formResponse(i).form_id
    /\ s.raw_data.answers # formResponse(i).answers

\* the columns every record has, whatever the answers
BaseColumns == {"Submission ID", "Submitted At", "Form Name", "Status", "View Data"}

\* the extracted value is present, not the empty string and not 'N/A'
Settable(value) == value \notin {Absent, "", "N/A"}

\* the extracted values of the answers of an event that pass the test
SettableValues(ev) ==
  {getAnswerText(ev.answers[n]) :
     n \in {m \in 1..Len(ev.answers) : Settable(getAnswerText(ev.answers[m]))}}

\* value is what is sent for the extracted value v: v itself or its beginning
SentFor(value, v) == Len(value) <= Len(v) /\ SubSeq(v, 1, Len(value)) = value

\* C22: every answer column of a record sent to the mirror holds the value of
\* an answer whose extracted value is present, non-empty and not 'N/A'; an
\* answer that fails the test sets no column, so an event whose answers all
\* fail it is sent with the base columns only
C22_SkippedBeforeClassification ==
  \A i \in Invs : Created(i) =>
    \A r \in mirror : \A col \in DOMAIN r.fields \ BaseColumns :
      /\ Settable(r.fields[col])
      /\ \E v \in SettableValues(formResponse(i)) : SentFor(r.fields[col], v)

\* a record has been created for an event whose only answer has a question
\* that a branch of the chain matches and the value 'N/A', and the record has
\* no answer column
C22_Witness ==
  \E i \in Invs :
    /\ Created(i)
    /\ Len(formResponse(i).answers) = 1
    /\ getAnswerText(formResponse(i).answers[1]) = "N/A"
    /\ MatchingRules(formResponse(i), 1) # {}
    /\ \A r \in mirror : DOMAIN r.fields \subseteq BaseColumns

\* C23: the Submission row stored for an event holds a timestamp: the event's
\* submitted_at, or the time of receipt when the event carries none
C23_TimestampDefaulted ==
  \A s \in submissions :
    /\ s.submitted_at # Absent
    /\ s.submitted_at = submittedAt(s.raw_data)

\* the event a row of the answers table was made from
EventOf(row) == (CHOOSE s \in submissions : s.id = row.submission_id).raw_data

\* the first available of the definition's label for the question, the
\* answer's inline field title, its field reference, and 'Unknown'
PreferredLabel(ev, answer) ==
  IF Truthy(questionMap(ev, answer.field.id)) THEN questionMap(ev, answer.field.id)
  ELSE IF Truthy(answer.field.title) THEN answer.field.title
  ELSE IF Truthy(answer.field.ref) THEN answer.field.ref
  ELSE "Unknown"

\* C24: the question label stored with each Answer row is the first available
\* of the definition's label for its question id, the answer's inline field
\* title, the answer's field reference and the literal 'Unknown'
C24_LabelPreference ==
  \A row \in answerRows :
    row.question_text = PreferredLabel(EventOf(row), AnswerOf(row))

\* C25: every record sent to the mirror holds the submission identifier (the
\* event's token), a submission timestamp, a form title (the definition's, or
\* 'Unknown') and the status 'New', also for an event without timestamp or
\* without form definition
C25_RecordBaseFields ==
  \A i \in Invs : Created(i) =>
    \A r \in mirror :
      /\ {"Submission ID", "Submitted At", "Form Name", "Status"} \subseteq DOMAIN r.fields
      /\ r.fields["Submission ID"] = TokenOf(i)
      /\ r.fields["Submitted At"] # Absent
      /\ r.fields["Form Name"] =
           (IF formResponse(i).definition.k = "obj" /\ Truthy(formResponse(i).definition.title)
              THEN formResponse(i).definition.title ELSE "Unknown")
      /\ r.fields["Status"] = "New"

\* what the mirror is to receive for an extracted value: the value, or its
\* first AirtableLimit characters when it is longer
Capped(v) == IF Len(v) > AirtableLimit THEN SubSeq(v, 1, AirtableLimit) ELSE v

\* C26: every answer column of a record sent to the mirror is at most
\* AirtableLimit (100000) characters long: it holds the first 100000 characters
\* of a longer extracted value, and a value within the limit unchanged
C26_ValueTruncated ==
  \A i \in Invs : Created(i) =>
    \A r \in mirror : \A col \in DOMAIN r.fields \ BaseColumns :
      /\ Len(r.fields[col]) <= AirtableLimit
      /\ \E v \in SettableValues(formResponse(i)) : r.fields[col] = Capped(v)

\* a record has been created from an answer of more than 100000 characters,
\* and its column holds exactly 100000 of them
C26_Witness ==
  \E i \in Invs :
    /\ Created(i)
    /\ \E v \in SettableValues(formResponse(i)) : Len(v) > AirtableLimit
    /\ \E r \in mirror : \E col \in DOMAIN r.fields \ BaseColumns :
         Len(r.fields[col]) = AirtableLimit

\* the store has answered every call of the invocation so far
StoreAnswers(i) ==
  /\ ~hist[i].lookupFailed
  /\ hist[i].insertFailed # "request"
  /\ ~hist[i].answersFailed

\* the delivery has been acknowledged and the store holds exactly one
\* Submission row of its submissionId
DeliveredOnce(i) ==
  /\ Done(i)
  /\ response[i].status = 200
  /\ response[i] = Success(TokenOf(i))
  /\ Cardinality(RowsOf(TokenOf(i))) = 1

HandlerResponses ==
  {MethodNotAllowed, Unauthorized, PayloadTooLarge, InvalidStructure, MissingFields,
   DatabaseSaveFailed, InternalServerError} \cup {Success(t) : t \in Tokens}

\* C28: an invocation sends one response and ends with it: the response is
\* one of handler's (method rejection, unauthorized, oversize, malformed,
\* persistence failure, success, unexpected exception), it is sent exactly when
\* the invocation ends, it is never replaced by another, and the invocation
\* makes no call to the store or the mirror after it
C28_OneResponse ==
  /\ [](\A i \in Invs : /\ (response[i] # NoResponse) <=> Done(i)
                        /\ Done(i) => response[i] \in HandlerResponses)
  /\ [][\A i \in Invs :
          /\ response'[i] # response[i] =>
               \/ response[i] = NoResponse /\ pc[i] # "done" /\ pc'[i] = "done"
               \/ response'[i] = NoResponse /\ pc'[i] = "idle"
          /\ response[i] # NoResponse =>
               \/ response'[i] = response[i] /\ hist'[i] = hist[i] /\ pc'[i] = pc[i]
               \/ response'[i] = NoResponse /\ pc'[i] = "idle"]_vars

\* one invocation has ended with 'Database save failed' after calling the
\* store, another with the acknowledgement after calling the mirror
C28_Witness ==
  \E i, j \in Invs :
    /\ Done(i) /\ response[i] = DatabaseSaveFailed /\ hist[i].storeCalls > 0
    /\ Done(j) /\ response[j].status = 200 /\ hist[j].mirrorCalls > 0

\* C29: Answer rows are inserted only by the invocation that inserted their
\* Submission row, in its own batch; a Submission row without Answer rows whose
\* inserting invocation is past its batch (the batch failed) or gone keeps
\* none, whatever is delivered later
C29_AnswersOnlyByInserter ==
  /\ [][\A a \in answerRows' \ answerRows :
          /\ \E s \in submissions : s.id = a.submission_id
          /\ \E i \in Invs : /\ InsertingAnswersFor(i, a.submission_id)
                             /\ hist[i].insertFailed = "no"]_vars
  /\ [][\A s \in submissions :
          (AnswersOf(s.id) = {} /\ ~\E i \in Invs : InsertingAnswersFor(i, s.id))
            => AnswersOf(s.id)' = {}]_vars

\* a later delivery of an event with answers has found the Submission row of
\* its submissionId, which has no Answer rows, and has been acknowledged; the
\* row still has none
C29_Witness ==
  \E i \in Invs : \E s \in submissions :
    /\ Done(i) /\ response[i].status = 200
    /\ submission[i] = 0 /\ dbSubmissionId[i] = s.id
    /\ answersBatch(formResponse(i), s.id, 0) # {}
    /\ answersBatch(s.raw_data, s.id, 0) # {}
    /\ AnswersOf(s.id) = {}

\* the answers to catch-all questions (no branch of the chain, a keyword of the
\* catch-all), with or without value, and those among them with a value
CatchAllQuestions(ev) ==
  {n \in 1..Len(ev.answers) :
     /\ MatchingRules(ev, n) = {}
     /\ matchesAny(questionTitle(ev, ev.answers[n]), questionRef(ev.answers[n]),
                   catchAllKeywords)}
ValuedCatchAll(ev) ==
  {n \in CatchAllQuestions(ev) : Settable(getAnswerText(ev.answers[n]))}
\* the valued catch-all answers before answer n, and the catch-all questions
\* up to it
ValuedBefore(ev, n) == Cardinality({m \in ValuedCatchAll(ev) : m < n})
QuestionsUpTo(ev, n) == Cardinality({m \in CatchAllQuestions(ev) : m <= n})
DetailColumns == {optionalDetailFields[j] : j \in 1..Len(optionalDetailFields)}

\* C30: a catch-all answer without value takes no slot: in a created record a
\* valued catch-all answer with fewer than four valued catch-all answers
\* before it is in the detail column numbered by that count plus one, and the
\* record has as many detail columns as the event has valued catch-all
\* answers, up to four
C30_SlotOnlyForValued ==
  \A i \in Invs : Created(i) =>
    \A rec \in RecordsOf(TokenOf(i)) :
      LET ev == formResponse(i)
          valued == Cardinality(ValuedCatchAll(ev))
      IN /\ \A n \in ValuedCatchAll(ev) :
              ValuedBefore(ev, n) < Len(optionalDetailFields) =>
                /\ optionalDetailFields[ValuedBefore(ev, n) + 1] \in DOMAIN rec.fields
                /\ rec.fields[optionalDetailFields[ValuedBefore(ev, n) + 1]]
                     = Capped(getAnswerText(ev.answers[n]))
         /\ Cardinality(DetailColumns \cap DOMAIN rec.fields)
              = (IF valued < Len(optionalDetailFields) THEN valued
                 ELSE Len(optionalDetailFields))

\* a record was created for an event in which a catch-all question without
\* value precedes a valued one: the valued answer is the third catch-all
\* question and the second with a value, and it is in the second detail column
C30_Witness ==
  \E i \in Invs :
    /\ Created(i)
    /\ \E n \in ValuedCatchAll(formResponse(i)) :
         /\ QuestionsUpTo(formResponse(i), n) = 3
         /\ ValuedBefore(formResponse(i), n) = 1
         /\ \E rec \in RecordsOf(TokenOf(i)) :
              /\ rec.fields[optionalDetailFields[2]] = getAnswerText(formResponse(i).answers[n])
              /\ rec.fields[optionalDetailFields[3]] # getAnswerText(formResponse(i).answers[n])
====
